---- MODULE Spec2Model ----
(***************************************************************************)
(* Model of the Valvoline PDS service: the name resolver and index file of *)
(* main.py and the text extraction pipeline of pds_extractor.py.           *)
(*                                                                         *)
(* Strings are sequences of one-character strings, offsets are 0-based as  *)
(* in Python (s[i+1] is the character at offset i).  Regular expressions   *)
(* are syntax trees run by a backtracking matcher with Python's priority   *)
(* order (leftmost start, alternatives left to right, greedy or lazy       *)
(* repetition), so that every pattern of the source is written down as it  *)
(* stands there.                                                           *)
(***************************************************************************)
EXTENDS Integers, Sequences, FiniteSets, TLC

VARIABLES
    index,      \* index.json: the name -> path dict, in insertion order
    rq,         \* the name of the _resolve_by_name call handled last, None
                \* when the index was written since
    rres,       \* the outcome of that call (a path, or HTTP 404)
    stext, sanchors, sstops, smax,  \* _section_after: its arguments
    spc, sstart, send, ssec,        \* _section_after: position, locals, result
    doc,        \* extract_pds: the document behind pdf_path
    pc,         \* extract_pds: position in the pipeline
    text,       \* extract_pds: text returned by _read_text
    product, version,   \* extract_pds: results of the two scalar extractors
    items, approvals,   \* _extract_approvals: items and out
    section, lines, li, props, ordinal,  \* _extract_typical_properties: locals
    record,     \* extract_pds: the returned dict
    wpc,        \* _save_index_entry: position of each concurrent call
    wkey, wval, \* _save_index_entry: the key and value each call stores
    widx,       \* _save_index_entry: each call's local idx
    acked,      \* the last completed _save_index_entry of every key
    snap        \* the dict returned by the _load_index taken last, none
                \* when a _save_index_entry has completed since

rvars == <<index, rq, rres>>
svars == <<stext, sanchors, sstops, smax, spc, sstart, send, ssec>>
evars == <<doc, pc, text, product, version, items, approvals,
           section, lines, li, props, ordinal, record>>
wvars == <<wpc, wkey, wval, widx, acked, snap>>
vars == <<index, rq, rres,
          stext, sanchors, sstops, smax, spc, sstart, send, ssec,
          doc, pc, text, product, version, items, approvals,
          section, lines, li, props, ordinal, record,
          wpc, wkey, wval, widx, acked, snap>>

-----------------------------------------------------------------------------
(* Characters and strings *)

\* the function f over 1..n, as the tuple of its values
AsSeq(f) == f \o <<>>

\* a string as the sequence of its characters
Chars(s) == AsSeq([i \in 1..Len(s) |-> SubSeq(s, i, i)])

\* characters beyond Latin-1, by code point
EnDash == "u2013"
EmDash == "u2014"
Bullet == "u2022"

\* None where a string is expected: no string of characters equals it
None == <<"None">>

UpperSeq == Chars("ABCDEFGHIJKLMNOPQRSTUVWXYZ")
LowerSeq == Chars("abcdefghijklmnopqrstuvwxyz")
DigitSeq == Chars("0123456789")

Range(f) == {f[i] : i \in DOMAIN f}

Upper == Range(UpperSeq)
LowerCase == Range(LowerSeq)
Digit == Range(DigitSeq)
Alpha == Upper \cup LowerCase
Space == {" ", "\n", "\t", "\r"}
\* \w of the re module, over the characters the model uses
WordChar == Alpha \cup Digit \cup {"_", "é", "É", "µ", "²", "º"}

\* str.lower(), character by character
LowerChar(ch) ==
    IF ch \in Upper THEN LowerSeq[CHOOSE i \in 1..26 : UpperSeq[i] = ch]
    ELSE IF ch = "É" THEN "é"
    ELSE ch

\* str.upper(), for the other case of a letter under re.I
UpperChar(ch) ==
    IF ch \in LowerCase THEN UpperSeq[CHOOSE i \in 1..26 : LowerSeq[i] = ch]
    ELSE IF ch = "é" THEN "É"
    ELSE ch

lower(s) == AsSeq([i \in 1..Len(s) |-> LowerChar(s[i])])

Min(S) == CHOOSE x \in S : \A y \in S : x <= y
Max(S) == CHOOSE x \in S : \A y \in S : y <= x

\* s[a:b] of Python, for 0 <= a
Slice(s, a, b) ==
    LET hi == IF b > Len(s) THEN Len(s) ELSE b
    IN IF a >= hi THEN <<>> ELSE SubSeq(s, a + 1, hi)

\* a in b, for strings
Contains(b, a) ==
    \E i \in 0..(Len(b) - Len(a)) : Slice(b, i, i + Len(a)) = a

\* str.strip()
strip(s) ==
    LET ink == {i \in 1..Len(s) : s[i] \notin Space}
    IN IF ink = {} THEN <<>> ELSE SubSeq(s, Min(ink), Max(ink))

RECURSIVE Join(_, _)
\* sep.join(parts)
Join(parts, sep) ==
    IF parts = <<>> THEN <<>>
    ELSE IF Len(parts) = 1 THEN parts[1]
    ELSE parts[1] \o sep \o Join(Tail(parts), sep)

\* the pieces of s between the characters of seps
SplitOn(s, seps) ==
    LET at == {i \in 1..Len(s) : s[i] \in seps}
        \* the position of the k-th separator; 0 and Len(s) + 1 around them
        pos(k) == IF k = 0 THEN 0
                  ELSE IF k > Cardinality(at) THEN Len(s) + 1
                  ELSE CHOOSE i \in at : Cardinality({j \in at : j < i}) = k - 1
    IN AsSeq([k \in 1..(Cardinality(at) + 1) |-> SubSeq(s, pos(k - 1) + 1, pos(k) - 1)])

\* str.splitlines(): no empty last line after a final line break
splitlines(s) ==
    IF s = <<>> THEN <<>>
    ELSE LET p == SplitOn(s, {"\n", "\r"})
         IN IF p[Len(p)] = <<>> THEN SubSeq(p, 1, Len(p) - 1) ELSE p

NonEmpty(x) == x # <<>>
SelectNonEmpty(ls) == SelectSeq(ls, NonEmpty)

\* [ln.strip() for ln in s.splitlines() if ln.strip()]
StrippedLines(s) ==
    LET ls == splitlines(s)
    IN SelectNonEmpty([i \in 1..Len(ls) |-> strip(ls[i])])

-----------------------------------------------------------------------------
(* Regular expressions *)

Set(S) == [t |-> "set", s |-> S]
NotSet(S) == [t |-> "nset", s |-> S]
Cat(a) == [t |-> "cat", a |-> a]
Alt(a) == [t |-> "alt", a |-> a]
\* r{lo,hi}; hi = -1 is no upper limit
Rep(r, lo, hi) == [t |-> "rep", r |-> r, lo |-> lo, hi |-> hi, greedy |-> TRUE]
Lazy(r, lo, hi) == [t |-> "rep", r |-> r, lo |-> lo, hi |-> hi, greedy |-> FALSE]
Star(r) == Rep(r, 0, -1)
Plus(r) == Rep(r, 1, -1)
Opt(r) == Rep(r, 0, 1)
Group(n, r) == [t |-> "grp", n |-> n, r |-> r]
Bol == [t |-> "bol"]
Eol == [t |-> "eol"]
WordB == [t |-> "wb"]
\* a literal string: one set of characters for each position
Lit(str) == [t |-> "lit", a |-> AsSeq([i \in 1..Len(str) |-> {SubSeq(str, i, i)}])]
\* a literal string under re.I
LitI(str) ==
    [t |-> "lit",
     a |-> AsSeq([i \in 1..Len(str) |->
                     {LowerChar(SubSeq(str, i, i)), UpperChar(SubSeq(str, i, i))}])]

NoGroup == <<-1, -1>>
NoCaps == <<NoGroup, NoGroup, NoGroup>>
\* None where a match object is expected
NoMatch == [none |-> TRUE]
Fail == [e |-> -1, c |-> NoCaps]

\* whether a character class node takes the character
Takes(n, ch) == IF n.t = "set" THEN ch \in n.s ELSE ch \notin n.s

\* how many characters from offset i on a repeated character class can take
RunLength(n, s, i) ==
    LET bad == {j \in 1..(Len(s) - i) : ~Takes(n.r, s[i + j])}
        run == IF bad = {} THEN Len(s) - i ELSE Min(bad) - 1
    IN IF n.hi >= 0 /\ n.hi < run THEN n.hi ELSE run

IsWordAt(s, i) == i >= 0 /\ i < Len(s) /\ s[i + 1] \in WordChar

RECURSIVE Run(_, _, _, _)
\* The first way, in the matcher's priority order, to match the nodes of
\* stack one after the other from offset i; e is the end offset, -1 for none.
Run(stack, s, i, c) ==
    IF stack = <<>> THEN [e |-> i, c |-> c]
    ELSE
      LET n == Head(stack)
          rest == Tail(stack)
      IN CASE n.t = "set" ->
                IF i < Len(s) /\ s[i + 1] \in n.s THEN Run(rest, s, i + 1, c) ELSE Fail
           [] n.t = "nset" ->
                IF i < Len(s) /\ s[i + 1] \notin n.s THEN Run(rest, s, i + 1, c) ELSE Fail
           [] n.t = "lit" ->
                IF i + Len(n.a) <= Len(s) /\ \A j \in 1..Len(n.a) : s[i + j] \in n.a[j]
                THEN Run(rest, s, i + Len(n.a), c) ELSE Fail
           [] n.t = "cat" -> Run(n.a \o rest, s, i, c)
           [] n.t = "alt" ->
                IF n.a = <<>> THEN Fail
                ELSE LET r1 == Run(<<Head(n.a)>> \o rest, s, i, c)
                     IN IF r1.e >= 0 THEN r1
                        ELSE Run(<<Alt(Tail(n.a))>> \o rest, s, i, c)
           [] n.t = "rep" /\ n.r.t \in {"set", "nset"} ->
                \* a repeated character class: the counts it can take, the
                \* largest first when greedy, the smallest first when lazy
                LET k == RunLength(n, s, i)
                    first == Run(rest, s, i + (IF n.greedy THEN k ELSE n.lo), c)
                    tries == {<<j, Run(rest, s, i + j, c)>> : j \in n.lo..k}
                    good == {j \in n.lo..k : \E p \in tries : p[1] = j /\ p[2].e >= 0}
                    best == IF n.greedy THEN Max(good) ELSE Min(good)
                IN IF k < n.lo THEN Fail
                   ELSE IF first.e >= 0 THEN first
                   ELSE IF good = {} THEN Fail
                   ELSE (CHOOSE p \in tries : p[1] = best)[2]
           [] n.t = "rep" ->
                LET less == [n EXCEPT !.lo = IF n.lo > 0 THEN n.lo - 1 ELSE 0,
                                      !.hi = IF n.hi > 0 THEN n.hi - 1 ELSE n.hi]
                    more == IF n.hi = 0 THEN Fail
                            ELSE Run(<<n.r, less>> \o rest, s, i, c)
                    stop == IF n.lo > 0 THEN Fail ELSE Run(rest, s, i, c)
                IN IF n.greedy
                   THEN (IF more.e >= 0 THEN more ELSE stop)
                   ELSE (IF stop.e >= 0 THEN stop ELSE more)
           [] n.t = "grp" ->
                Run(<<n.r, [t |-> "end", n |-> n.n, from |-> i]>> \o rest, s, i, c)
           [] n.t = "end" ->
                Run(rest, s, i, [c EXCEPT ![n.n] = <<n.from, i>>])
           [] n.t = "bol" -> IF i = 0 THEN Run(rest, s, i, c) ELSE Fail
           [] n.t = "eol" ->
                IF i = Len(s) \/ (i = Len(s) - 1 /\ s[Len(s)] = "\n")
                THEN Run(rest, s, i, c) ELSE Fail
           [] n.t = "wb" ->
                IF IsWordAt(s, i - 1) # IsWordAt(s, i) THEN Run(rest, s, i, c) ELSE Fail

\* the match object for the first of the runs rs that succeeded, rs[k] being
\* the run from offset k - 1; None when there is none
LeftmostMatch(rs) ==
    LET starts == {k \in 1..Len(rs) : rs[k].e >= 0}
    IN IF starts = {} THEN NoMatch
       ELSE [s |-> Min(starts) - 1, e |-> rs[Min(starts)].e, c |-> rs[Min(starts)].c]

\* pattern.match(s): a match at offset 0
match(re, s) == LeftmostMatch(<<Run(<<re>>, s, 0, NoCaps)>>)

\* pattern.search(s): the match at the leftmost offset that has one
search(re, s) ==
    LeftmostMatch(AsSeq([k \in 1..(Len(s) + 1) |-> Run(<<re>>, s, k - 1, NoCaps)]))

\* the first match object of ms that is not None, None when there is none
FirstOf(ms) ==
    LET hits == {j \in 1..Len(ms) : ms[j] # NoMatch}
    IN IF hits = {} THEN NoMatch ELSE ms[Min(hits)]

\* m.start() and m.end(), -1 where m is None
StartOf(m) == IF m = NoMatch THEN -1 ELSE m.s
EndOf(m) == IF m = NoMatch THEN -1 ELSE m.e

\* m.group(n), None for a group that took no part in the match
group(m, n, s) == IF m.c[n] = NoGroup THEN None ELSE Slice(s, m.c[n][1], m.c[n][2])

-----------------------------------------------------------------------------
(* pds_extractor.py: helpers *)

\* one character, either case (a letter of a pattern compiled with re.I)
CharI(ch) == Set({LowerChar(ch), UpperChar(ch)})
AnyChar == NotSet({"\n"})
WS == Set(Space)

\* where the match of re at each offset of s ends, -1 for no match there
MatchEnds(re, s) == AsSeq([k \in 1..Len(s) |-> Run(<<re>>, s, k - 1, NoCaps).e])

\* the first offset from i on that has a match, Len(ends) for none
NextMatch(ends, i) ==
    Min({k \in i..(Len(ends) - 1) : ends[k + 1] > k} \cup {Len(ends)})

\* s with the leftmost matches that do not overlap replaced, ends[i + 1]
\* being the end of the match at offset i
SubAt(ends, repl, s) ==
    LET out[i \in 0..Len(s)] ==
          LET at == NextMatch(ends, i)
          IN IF at = Len(ends) THEN Slice(s, i, Len(s))
             ELSE Slice(s, i, at) \o repl \o out[ends[at + 1]]
    IN out[0]

\* s cut at the leftmost matches that do not overlap
SplitAt(ends, s) ==
    LET parts[i \in 0..Len(s)] ==
          LET at == NextMatch(ends, i)
          IN IF at = Len(ends) THEN <<Slice(s, i, Len(s))>>
             ELSE <<Slice(s, i, at)>> \o parts[ends[at + 1]]
    IN parts[0]

\* re.sub(pattern, repl, s) for a pattern that matches no empty string
ReSub(re, repl, s) == SubAt(MatchEnds(re, s), repl, s)

\* s.replace(old, new), old not empty: leftmost occurrences, not overlapping
ReplaceAll(s, old, new) ==
    ReSub([t |-> "lit", a |-> AsSeq([i \in 1..Len(old) |-> {old[i]}])], new, s)

\* re.split(pattern, s) for a pattern without groups that matches no empty string
ReSplit(re, s) == SplitAt(MatchEnds(re, s), s)

\* extract_text() of one page: its text, None, or an exception
Raises == <<"Raises">>

RECURSIVE PageTexts(_)
\* the loop of _read_text over reader.pages
PageTexts(pages) ==
    IF pages = <<>> THEN <<>>
    ELSE <<IF Head(pages) \in {Raises, None} THEN <<>> ELSE Head(pages)>>
         \o PageTexts(Tail(pages))

\* _read_text once PdfReader(pdf_path) has returned
read_text(pages) ==
    LET raw0 == Join(PageTexts(pages), <<"\n">>)
        raw1 == ReplaceAll(raw0, <<"\r">>, <<"\n">>)
        raw2 == ReSub(Plus(Set({" ", "\t"})), <<" ">>, raw1)
        raw3 == ReSub(Rep(Set({"\n"}), 3, -1), <<"\n", "\n">>, raw2)
    IN ReplaceAll(ReplaceAll(ReplaceAll(ReplaceAll(raw3,
           <<"º">>, <<"°">>), <<EnDash>>, <<"-">>), <<EmDash>>, <<"-">>), <<"²">>, <<"2">>)

\* _norm
norm(s) == ReSub(Plus(WS), <<" ">>, strip(s))

\* the match object of ms that starts first, None when ms is empty
EarliestOf(ms) ==
    IF ms = {} THEN NoMatch ELSE CHOOSE m \in ms : \A o \in ms : m.s <= o.s

\* the anchor loop taking the match at the smallest offset of any anchor
EarliestAnchorEnd(t, anchors) ==
    EndOf(EarliestOf({search(anchors[j], t) : j \in 1..Len(anchors)} \ {NoMatch}))

\* the anchor loop of _section_after: m.end() of the first anchor of the
\* list that matches, -1 for start = None
FirstAnchorEnd(t, anchors) ==
    EndOf(FirstOf(AsSeq([j \in 1..Len(anchors) |-> search(anchors[j], t)])))

\* the stop loop of _section_after: m2.start() of the first stop marker of
\* the list that matches in the snippet, -1 for none
FirstStopStart(snippet, stop_markers) ==
    StartOf(FirstOf(AsSeq([j \in 1..Len(stop_markers) |-> search(stop_markers[j], snippet)])))

\* end of _section_after, given start and the offset st in the snippet of
\* the stop marker found, -1 for none
EndFor(t, start, st) == IF st >= 0 THEN start + st ELSE Len(t)

\* end of _section_after, given start
SectionEnd(t, start, stop_markers, max_chars) ==
    EndFor(t, start, FirstStopStart(Slice(t, start, start + max_chars), stop_markers))

\* _section_after from "if start is None" on
SectionFrom(t, start, stop_markers, max_chars) ==
    IF start = -1 THEN None
    ELSE Slice(t, start, SectionEnd(t, start, stop_markers, max_chars))

\* _section_after
section_after(t, anchors, stop_markers, max_chars) ==
    SectionFrom(t, FirstAnchorEnd(t, anchors), stop_markers, max_chars)

\* the loop of _split_items: the parts after _norm, the empty ones dropped
NormNonEmpty(parts) == SelectNonEmpty(AsSeq([i \in 1..Len(parts) |-> norm(parts[i])]))

\* _split_items
split_items(blob) ==
    NormNonEmpty(ReSplit(Cat(<<Set({";", "\n", Bullet, "-"}), Star(WS)>>), blob))

-----------------------------------------------------------------------------
(* pds_extractor.py: extractors *)

\* the components of Path(p): empty and "." components are dropped
PathParts(p) == SelectSeq(SplitOn(p, {"/"}), LAMBDA x : x # <<>> /\ x # <<".">>)

\* Path(p).stem: the last component without its last suffix
Stem(p) ==
    LET comps == PathParts(p)
        name == IF comps = <<>> THEN <<>> ELSE comps[Len(comps)]
        dots == {i \in 1..Len(name) : name[i] = "."}
        last == IF dots = {} THEN 0 ELSE CHOOSE i \in dots : \A j \in dots : j <= i
    IN IF last > 1 /\ last < Len(name) THEN SubSeq(name, 1, last - 1) ELSE name

HeadChars == 2000

\* x unless it is None
OrElse(x, other) == IF x # None THEN x ELSE other

\* x unless it is None or empty: "x or other"
Or(x, other) == IF x = None \/ x = <<>> THEN other ELSE x

\* the loop of _extract_product_name over head.splitlines()
FirstValvolineLine(ls) ==
    LET pre == Chars("valvoline")
        hits == {j \in 1..Len(ls) : Slice(lower(strip(ls[j])), 0, Len(pre)) = pre}
    IN IF hits = {} THEN None ELSE norm(strip(ls[Min(hits)]))

\* _extract_product_name; d.title is the /Title of the metadata, None when
\* there is none or the document cannot be read
extract_product_name(t, d) ==
    LET title == IF d.title = None \/ ~d.readable THEN <<>> ELSE strip(d.title)
    IN OrElse(FirstValvolineLine(splitlines(Slice(t, 0, HeadChars))),
              norm(IF title # <<>> THEN title ELSE Stem(d.path)))

VersionPats ==
    << Cat(<<Alt(<<LitI("Revision"), Cat(<<LitI("Rev"), Opt(Set({"."}))>>), LitI("Version")>>),
             Star(WS), Set({":", " "}), Star(WS),
             Group(1, Rep(Set(Alpha \cup Digit \cup {".", "/", " ", "-"}), 2, -1))>>),
       Cat(<<WordB, Group(1, Cat(<<Rep(Set(Digit), 3, 3), Set({"/"}), Plus(Set(Digit)),
                                   Opt(Set(Alpha))>>)), WordB>>),
       Cat(<<WordB, Group(1, Cat(<<Rep(Set(Digit), 2, 4), Set({"/"}), Rep(Set(Digit), 1, 2),
                                   Opt(Set(Alpha))>>)), WordB>>) >>

\* the value returned for the match m of a version pattern, None for no match
VersionOf(m, t) ==
    IF m = NoMatch THEN None
    ELSE norm(ReplaceAll(ReplaceAll(group(m, 1, t), Chars(" / "), Chars("/")),
                         Chars("  "), Chars(" ")))

\* the loop of _extract_version over pats
FirstVersion(pats, t) ==
    VersionOf(FirstOf(AsSeq([j \in 1..Len(pats) |-> search(pats[j], t)])), t)

\* _extract_version
extract_version(t) == FirstVersion(VersionPats, t)

OemTokens(toks) ==
    Cat(<<WordB, Group(1, Alt(AsSeq([i \in 1..Len(toks) |-> LitI(toks[i])]))), WordB>>)

ApprovalAnchors ==
    << Cat(<<LitI("Approval"), Opt(CharI("s")), Star(WS), Opt(Set({"&"})), Star(WS),
             Opt(Set({"/"})), Star(WS), LitI("Specification"), Opt(CharI("s"))>>),
       Cat(<<LitI("Specification"), Opt(CharI("s"))>>),
       Cat(<<LitI("Performance"), Opt(Cat(<<LitI(" level"), Opt(CharI("s"))>>))>>),
       Cat(<<LitI("Meets "), Opt(LitI("or exceeds ")), LitI("the requirements of")>>),
       OemTokens(<<"API", "ACEA", "ILSAC", "JASO", "VW", "MB", "BMW", "FORD", "GM", "DEXOS">>) >>

CapsHeader == Cat(<<Set({"\n"}), Rep(Set(Upper \cup {" "}), 4, -1), Set({"\n"})>>)

ApprovalStops ==
    << Cat(<<LitI("Typical "), Alt(<<LitI("properties"), LitI("characteristics"),
                                     LitI("values"), LitI("data")>>)>>),
       LitI("Typical"),
       Alt(<<LitI("Health"), LitI("Safety"), LitI("Handling")>>),
       LitI("Storage"),
       CapsHeader >>

ApprovalMaxChars == 1500
ApprovalPrefix == 3000

keep_tokens ==
    OemTokens(<<"API", "ACEA", "ILSAC", "JASO", "VW", "MB", "BMW", "FORD", "GM", "DEXOS",
                "PSA", "FIAT", "RENAULT", "VOLVO", "MAN", "CUMMINS", "ALLISON">>)

HasToken(line) == search(keep_tokens, line) # NoMatch
\* the loop keeping the lines in which keep_tokens is found
KeepLines(ls) == SelectSeq(ls, HasToken)

\* _extract_approvals down to the items list
approval_items(t) ==
    KeepLines(split_items(Or(section_after(t, ApprovalAnchors, ApprovalStops, ApprovalMaxChars),
                             Slice(t, 0, ApprovalPrefix))))

RECURSIVE UniqueCaseSensitive(_, _)
\* the same loop with key = it in place of key = it.lower()
UniqueCaseSensitive(its, seen) ==
    IF its = <<>> THEN <<>>
    ELSE IF Head(its) \notin seen
         THEN <<Head(its)>> \o UniqueCaseSensitive(Tail(its), seen \cup {Head(its)})
         ELSE UniqueCaseSensitive(Tail(its), seen)

RECURSIVE Unique(_, _)
\* the "unique while preserving order" loop of _extract_approvals
Unique(its, seen) ==
    IF its = <<>> THEN <<>>
    ELSE LET key == lower(Head(its))
         IN IF key \notin seen THEN <<Head(its)>> \o Unique(Tail(its), seen \cup {key})
            ELSE Unique(Tail(its), seen)

\* _extract_approvals
extract_approvals(t) == Unique(approval_items(t), {})

PropAnchors ==
    << Cat(<<LitI("Typical "), Alt(<<LitI("properties"), LitI("characteristics"),
                                     LitI("values"), LitI("data")>>)>>) >>

PropStops ==
    << Alt(<<Cat(<<LitI("Approval"), Opt(CharI("s"))>>),
             Cat(<<LitI("Specification"), Opt(CharI("s"))>>), LitI("Performance")>>),
       Alt(<<LitI("Health"), LitI("Safety"), LitI("Handling"), LitI("Storage")>>),
       CapsHeader >>

PropMaxChars == 3000

\* the section of _extract_typical_properties
prop_section(t) == Or(section_after(t, PropAnchors, PropStops, PropMaxChars), t)

\* row_re (lines 179-187)
row_re ==
    Cat(<<Bol,
          Group(1, Cat(<<Set(Alpha), Lazy(AnyChar, 0, -1)>>)),
          Star(WS), Set({":", "."}), Star(WS),
          Group(2, Cat(<<Opt(Set({"<", ">"})), Star(WS), Plus(Set(Digit \cup {".", ","})),
                         Opt(Cat(<<Star(WS),
                                   Plus(Set(Alpha \cup Space \cup {"µ", "%", "°", "/", ".", "-"}))>>))>>)),
          Opt(Cat(<<Star(WS), Set({"("}), Star(WS),
                    Group(3, Cat(<<Lit("ASTM"), Star(NotSet({")"}))>>)), Set({")"})>>)),
          Eol>>)

\* the row that the body of the line loop appends for a line that row_re matches
Row(m, ln, ord) ==
    LET name == ReplaceAll(norm(group(m, 1, ln)), Chars("mm²/s"), Chars("mm2/s"))
        val == norm(group(m, 2, ln))
        g3 == group(m, 3, ln)
        method == norm(IF g3 = None THEN <<>> ELSE g3)
    IN [ordinal |-> ord, property_name |-> name,
        test_method |-> IF method # <<>> THEN method ELSE None, value |-> val]

NotColonNl == NotSet({":", "\n"})
LooseTail == <<Set({":", "."}), Star(WS), Group(2, Plus(AnyChar))>>

loose ==
    << Cat(<<Group(1, Cat(<<Lit("Viscosity"), Plus(NotColonNl)>>))>> \o LooseTail),
       Cat(<<Group(1, Lit("Viscosity Index"))>> \o LooseTail),
       Cat(<<Group(1, Lit("Pour Point")), Star(NotColonNl)>> \o LooseTail),
       Cat(<<Group(1, Lit("Flash Point")), Star(NotColonNl)>> \o LooseTail),
       Cat(<<Group(1, Cat(<<Lit("Specific Gravity"), Star(NotColonNl)>>))>> \o LooseTail),
       Cat(<<Group(1, Cat(<<Lit("TBN"), Star(NotColonNl)>>))>> \o LooseTail) >>

\* the body of the loop over loose for the match m of one pattern
LooseStep(m, sec, rows, ord) ==
    IF m = NoMatch THEN rows
    ELSE Append(rows, [ordinal |-> ord + Len(rows),
                       property_name |-> norm(group(m, 1, sec)),
                       test_method |-> None,
                       value |-> norm(group(m, 2, sec))])

\* the loop over loose: one row for each label pattern found in the
\* section; rows[j] is props after the first j patterns
LooseRows(pats, sec, ord) ==
    LET rows[j \in 0..Len(pats)] ==
          IF j = 0 THEN <<>>
          ELSE LooseStep(search(pats[j], sec), sec, rows[j - 1], ord)
    IN rows[Len(pats)]

\* the body of "for ln in lines" for the line ln, m being row_re.match(ln)
RowStep(m, ln, rows, ord) ==
    IF m = NoMatch THEN [props |-> rows, ordinal |-> ord]
    ELSE [props |-> Append(rows, Row(m, ln, ord)), ordinal |-> ord + 1]

\* the abbreviations of the standards bodies that name a test method
MethodTokens == {Chars("astm"), Chars("iso"), Chars("din")}
MethodLine(ln) == \E w \in MethodTokens : Contains(lower(ln), w)

\* the line loop as a scan of line pairs: the line ls[i] gives its row only
\* when the line after it holds a test-method token
LineStepPaired(ls, i, rows, ord) ==
    IF i < Len(ls) /\ MethodLine(ls[i + 1])
    THEN RowStep(match(row_re, ls[i]), ls[i], rows, ord)
    ELSE [props |-> rows, ordinal |-> ord]

\* the body of "for ln in lines" for the line ls[i]: props and ordinal after it
LineStep(ls, i, rows, ord) == RowStep(match(row_re, ls[i]), ls[i], rows, ord)

\* the renumbering loop with enumerate(props) counting from 0
RenumberFromZero(rows) ==
    AsSeq([i \in 1..Len(rows) |-> [rows[i] EXCEPT !.ordinal = i - 1]])

\* the renumbering loop of extract_pds
Renumber(rows) == AsSeq([i \in 1..Len(rows) |-> [rows[i] EXCEPT !.ordinal = i]])

-----------------------------------------------------------------------------
(* main.py: the index file and the name resolver *)

\* str(Path(p))
PathStr(p) ==
    LET comps == PathParts(p)
        root == IF p # <<>> /\ p[1] = "/" THEN <<"/">> ELSE <<>>
    IN IF comps = <<>> /\ root = <<>> THEN <<".">> ELSE root \o Join(comps, <<"/">>)

\* d[k] = v on a dict kept as the sequence of its items: a key that is
\* there keeps its place and takes the new value, a new key goes last
DictSet(d, k, v) ==
    IF \E i \in 1..Len(d) : d[i].k = k
    THEN AsSeq([i \in 1..Len(d) |-> IF d[i].k = k THEN [k |-> k, v |-> v] ELSE d[i]])
    ELSE Append(d, [k |-> k, v |-> v])

HasKey(d, k) == \E i \in 1..Len(d) : d[i].k = k
DictGet(d, k) == d[CHOOSE i \in 1..Len(d) : d[i].k = k].v

\* unicodedata.normalize('NFKD', c) without its combining characters
Nfkd(ch) ==
    IF ch = "é" THEN "e" ELSE IF ch = "²" THEN "2" ELSE IF ch = "º" THEN "o" ELSE ch

\* _norm_name keeping blanks and hyphens
norm_name_keeps_separators(s) ==
    SelectSeq([i \in 1..Len(s) |-> Nfkd(LowerChar(s[i]))],
              LAMBDA ch : ch \in LowerCase \cup Digit \cup {" ", "-"})

\* _norm_name; each replace call of lines 53-57 puts a token in its own place
norm_name(s) ==
    SelectSeq([i \in 1..Len(s) |-> Nfkd(LowerChar(s[i]))],
              LAMBDA ch : ch \in LowerCase \cup Digit)

RECURSIVE BuildNormMap(_, _)
\* the loop of _resolve_by_name over idx.items()
BuildNormMap(idx, norm_map) ==
    IF idx = <<>> THEN norm_map
    ELSE BuildNormMap(Tail(idx),
            DictSet(DictSet(norm_map, norm_name(Head(idx).k), Head(idx).v),
                    norm_name(Stem(Head(idx).v)), Head(idx).v))

NotFound(why) == [status |-> 404, detail |-> why]
Found(v) == [status |-> 200, path |-> PathStr(v)]

\* the "relaxed: substring" loop of _resolve_by_name
SubstringMatch(norm_map, q) ==
    LET hits == {i \in 1..Len(norm_map) : Contains(norm_map[i].k, q)}
    IN IF hits = {} THEN NotFound("no pdf") ELSE Found(norm_map[Min(hits)].v)

\* _resolve_by_name without its "exact normalized" step
resolve_by_name_substring_only(idx, name) ==
    IF idx = <<>> THEN NotFound("index is empty")
    ELSE SubstringMatch(BuildNormMap(idx, <<>>), norm_name(name))

\* _resolve_by_name on the loaded index idx
resolve_by_name(idx, name) ==
    IF idx = <<>> THEN NotFound("index is empty")
    ELSE LET norm_map == BuildNormMap(idx, <<>>)
             q == norm_name(name)
         IN IF HasKey(norm_map, q) THEN Found(DictGet(norm_map, q))
            ELSE SubstringMatch(norm_map, q)

\* _save_index_entry: the index file after the call
save_index_entry(idx, product_name, pdf_path) ==
    IF product_name = <<>> THEN idx
    ELSE DictSet(idx, strip(product_name), PathStr(pdf_path))

-----------------------------------------------------------------------------
(* The resolver and the index file as a state machine *)

MaxIndex == 2

Names ==
    { Chars("Valvoline SynPower ENV C2 5W-30"), Chars("ENV C2"),
      Chars("SynPower"), Chars("Syn-Power É2") }

Paths ==
    { Chars("doc1"), Chars("data/SynPower.pdf"),
      Chars("data/EUR_Val_SynENVC2_5W30_MO_EN.pdf") }

Queries ==
    { Chars("synpower env c 2 5w30"), Chars("ENV C2"), Chars("nonexistent"),
      Chars("syn power e2"), Chars("SYNPOWER"), Chars("SynPower"),
      Chars("---"), <<>> }

NoCall == [status |-> 0]

\* requests that can be inside _save_index_entry at the same time: drive_sync
\* is a plain def endpoint, which the server runs on its thread pool
MaxWriters == 2
Writers == 1..MaxWriters
NoSnapshot == [taken |-> FALSE]

IdleResolver == index = <<>> /\ rq = None /\ rres = NoCall
IdleSegmenter ==
    /\ stext = <<>> /\ sanchors = <<>> /\ sstops = <<>> /\ smax = 0
    /\ spc = "idle" /\ sstart = -1 /\ send = -1 /\ ssec = None
IdleExtractor ==
    /\ doc = [readable |-> FALSE, pages |-> <<>>, title |-> None, path |-> <<>>]
    /\ pc = "idle" /\ text = None /\ product = None /\ version = None
    /\ items = <<>> /\ approvals = <<>>
    /\ section = None /\ lines = <<>> /\ li = 0 /\ props = <<>> /\ ordinal = 0
    /\ record = [none |-> TRUE]
\* no request is inside _save_index_entry
IdleStore ==
    /\ wpc = [w \in Writers |-> "idle"]
    /\ wkey = [w \in Writers |-> None]
    /\ wval = [w \in Writers |-> None]
    /\ widx = [w \in Writers |-> <<>>]
    /\ acked = <<>>
    /\ snap = NoSnapshot

\* no index.json yet: _load_index returns {}
Init == IdleResolver /\ IdleSegmenter /\ IdleExtractor /\ IdleStore

\* _save_index_entry(product_name, pdf_path), as drive_sync calls it
SaveIndexEntry(product_name, pdf_path) ==
    /\ Len(save_index_entry(index, product_name, pdf_path)) <= MaxIndex
    /\ index' = save_index_entry(index, product_name, pdf_path)
    /\ rq' = None
    /\ rres' = NoCall
    /\ UNCHANGED <<svars, evars, wvars>>

\* _resolve_by_name(name), as summary_by_name and compare_by_name call it
ResolveByName(name) ==
    /\ rq' = name
    /\ rres' = resolve_by_name(index, name)
    /\ UNCHANGED <<index, svars, evars, wvars>>

Next ==
    \/ \E n \in Names, p \in Paths : SaveIndexEntry(n, p)
    \/ \E q \in Queries : ResolveByName(q)

Spec == Init /\ [][Next]_vars

-----------------------------------------------------------------------------
(* The index file under concurrent _save_index_entry calls *)

StoreNames == {Chars("SynPower"), Chars("ENV C2"), Chars(" ENV C2 "), <<>>}
StorePaths == {Chars("doc1"), Chars("data/SynPower.pdf")}

\* a call that stores key is between its _load_index and its write_text
Writing(key) == \E w \in Writers : wpc[w] = "write" /\ wkey[w] = key

\* lines 34-37 of a call by request w: the early return on an empty name,
\* idx = _load_index() and the assignment into the local idx.  The callers
\* keep one writer per key: no call starts on a key that is being written.
\* Each read and each write of the file is taken as one step.
PutLoad(w, product_name, pdf_path) ==
    /\ wpc[w] = "idle"
    /\ ~Writing(strip(product_name))
    /\ Len(save_index_entry(index, product_name, pdf_path)) <= MaxIndex
    /\ IF product_name = <<>>
       THEN UNCHANGED <<wpc, wkey, wval, widx>>
       ELSE /\ wpc' = [wpc EXCEPT ![w] = "write"]
            /\ wkey' = [wkey EXCEPT ![w] = strip(product_name)]
            /\ wval' = [wval EXCEPT ![w] = PathStr(pdf_path)]
            /\ widx' = [widx EXCEPT ![w] =
                            save_index_entry(index, product_name, pdf_path)]
    /\ UNCHANGED <<rvars, svars, evars, acked, snap>>

\* line 38 of that call: INDEX_PATH.write_text(json.dumps(idx)), and return
PutWrite(w) ==
    /\ wpc[w] = "write"
    /\ index' = widx[w]
    /\ acked' = DictSet(acked, wkey[w], wval[w])
    /\ snap' = NoSnapshot
    /\ wpc' = [wpc EXCEPT ![w] = "idle"]
    /\ wkey' = [wkey EXCEPT ![w] = None]
    /\ wval' = [wval EXCEPT ![w] = None]
    /\ widx' = [widx EXCEPT ![w] = <<>>]
    /\ UNCHANGED <<rq, rres, svars, evars>>

\* _load_index(), as any request takes it
LoadIndex ==
    /\ snap' = [taken |-> TRUE, idx |-> index]
    /\ UNCHANGED <<rvars, svars, evars, wpc, wkey, wval, widx, acked>>

StoreNext ==
    \/ \E w \in Writers, n \in StoreNames, p \in StorePaths : PutLoad(w, n, p)
    \/ \E w \in Writers : PutWrite(w)
    \/ LoadIndex

SpecStore == Init /\ [][StoreNext]_vars

-----------------------------------------------------------------------------
(* _section_after as a state machine over bounded arguments *)

MaxText == 3
MaxWindow == 2

SegAlphabet == {"a", "b", "-"}
SegTexts == UNION {[1..n -> SegAlphabet] : n \in 0..MaxText}
SegPats == {Lit("a"), Lit("b"), Lit("-")}
SegAnchorLists == {<<p>> : p \in SegPats} \cup {<<p, q>> : p, q \in SegPats}
SegStopLists == {<<>>} \cup SegAnchorLists

SegInit ==
    /\ IdleResolver /\ IdleExtractor /\ IdleStore
    /\ stext \in SegTexts
    /\ sanchors \in SegAnchorLists
    /\ sstops \in SegStopLists
    /\ smax \in 0..MaxWindow
    /\ spc = "anchors" /\ sstart = -1 /\ send = -1 /\ ssec = None

\* lines 42-49: the anchor loop, and return None when start is None
SegAnchors ==
    /\ spc = "anchors"
    /\ sstart' = FirstAnchorEnd(stext, sanchors)
    /\ spc' = IF sstart' = -1 THEN "done" ELSE "stops"
    /\ UNCHANGED <<stext, sanchors, sstops, smax, send, ssec, rvars, evars, wvars>>

\* lines 51-58: end, snippet and the stop loop
SegStops ==
    /\ spc = "stops"
    /\ send' = SectionEnd(stext, sstart, sstops, smax)
    /\ spc' = "slice"
    /\ UNCHANGED <<stext, sanchors, sstops, smax, sstart, ssec, rvars, evars, wvars>>

\* line 59: return text[start:end]
SegReturn ==
    /\ spc = "slice"
    /\ ssec' = Slice(stext, sstart, send)
    /\ spc' = "done"
    /\ UNCHANGED <<stext, sanchors, sstops, smax, sstart, send, rvars, evars, wvars>>

SegNext == SegAnchors \/ SegStops \/ SegReturn

SpecSegment == SegInit /\ [][SegNext]_vars

-----------------------------------------------------------------------------
(* Claims about the resolver, under Spec *)

\* The working map of the reference algorithm, as the list of its writes:
\* normalize_key(k) -> v, then normalize_key(stem_of(v)) -> v, in index order
WorkingWrites(idx) ==
    [j \in 1..(2 * Len(idx)) |->
        LET e == idx[(j + 1) \div 2]
        IN [k |-> IF j % 2 = 1 THEN norm_name(e.k) ELSE norm_name(Stem(e.v)), v |-> e.v]]

WorkingKeys(idx) == {WorkingWrites(idx)[j].k : j \in 1..(2 * Len(idx))}
\* a key's value is the one written last, its place the one of its first write
WorkingValue(idx, k) ==
    LET w == WorkingWrites(idx) IN w[Max({j \in 1..Len(w) : w[j].k = k})].v
WorkingPlace(idx, k) ==
    LET w == WorkingWrites(idx) IN Min({j \in 1..Len(w) : w[j].k = k})

Reference(idx, query) ==
    LET q == norm_name(query)
        hits == {k \in WorkingKeys(idx) : Contains(k, q)}
        first == CHOOSE k \in hits :
                    \A o \in hits : WorkingPlace(idx, k) <= WorkingPlace(idx, o)
    IN IF q \in WorkingKeys(idx) THEN [status |-> 200, path |-> WorkingValue(idx, q)]
       ELSE IF hits # {} THEN [status |-> 200, path |-> WorkingValue(idx, first)]
       ELSE [status |-> 404]

\* C1: on a non-empty index every call of the resolver returns what the
\* reference algorithm returns: the value of the exact key when the normalized
\* query is a key of the working map, else the value of the first key in
\* iteration order that contains it, else NotFound.
C1_ResolveFollowsReference ==
    (rq # None /\ index # <<>>) =>
        LET ref == Reference(index, rq)
        IN /\ rres.status = ref.status
           /\ ref.status = 200 => rres.path = ref.path

\* C1 witness: an exact key wins although an earlier key of the working map,
\* with another value, contains the query as a proper substring
C1_Witness ==
    /\ rq # None /\ index # <<>>
    /\ norm_name(rq) \in WorkingKeys(index)
    /\ rres = Found(WorkingValue(index, norm_name(rq)))
    /\ \E k \in WorkingKeys(index) :
          /\ k # norm_name(rq) /\ Contains(k, norm_name(rq))
          /\ WorkingPlace(index, k) < WorkingPlace(index, norm_name(rq))
          /\ WorkingValue(index, k) # WorkingValue(index, norm_name(rq))

C2_Index == <<[k |-> Chars("Valvoline SynPower ENV C2 5W-30"), v |-> Chars("doc1")]>>
\* whether the call returned from the "exact normalized" step
ByExactStep == HasKey(BuildNormMap(index, <<>>), norm_name(rq))

\* C2 as stated: "synpower env c 2 5w30" resolves to doc1 by the exact step,
\* "ENV C2" by the substring fallback, "nonexistent" fails with NotFound.
C2_AsStated ==
    (index = C2_Index /\ rq # None) =>
        /\ rq = Chars("synpower env c 2 5w30") =>
              rres = Found(Chars("doc1")) /\ ByExactStep
        /\ rq = Chars("ENV C2") => rres = Found(Chars("doc1")) /\ ~ByExactStep
        /\ rq = Chars("nonexistent") => rres.status = 404

\* C2 amended: all three outcomes are as stated, but "synpower env c 2 5w30"
\* resolves to doc1 by the substring fallback as well: its normalized form is
\* a proper substring of the only product key, not a key of the working map.
C2_Amended ==
    (index = C2_Index /\ rq # None) =>
        /\ rq = Chars("synpower env c 2 5w30") =>
              /\ rres = Found(Chars("doc1")) /\ ~ByExactStep
              /\ Contains(norm_name(C2_Index[1].k), norm_name(rq))
        /\ rq = Chars("ENV C2") => rres = Found(Chars("doc1")) /\ ~ByExactStep
        /\ rq = Chars("nonexistent") => rres.status = 404

C2_Witness ==
    /\ index = C2_Index
    /\ rq = Chars("synpower env c 2 5w30")
    /\ rres = Found(Chars("doc1"))

\* C11: on a non-empty index a query whose normalized form is empty, one
\* without a letter or digit such as "" or "---", fails with NotFound: no
\* entry of the index is returned for it.
C11_EmptyQueryNotFound ==
    (rq # None /\ index # <<>> /\ norm_name(rq) = <<>>) => rres.status = 404

\* C13: a key of the index resolves to its own document.  When the query is
\* a key k of the index whose normalized form differs from that of every
\* other key, _resolve_by_name returns index[k], also when the stem of
\* another entry's path normalizes to the same string as k.
C13_IndexedKeyResolvesToOwnDocument ==
    \A i \in 1..Len(index) :
        (/\ rq = index[i].k
         /\ \A j \in 1..Len(index) \ {i} :
                norm_name(index[j].k) # norm_name(index[i].k))
        => rres = Found(index[i].v)

-----------------------------------------------------------------------------
(* Claims about the index file, under SpecStore *)

\* C12: a completed _save_index_entry is never lost.  Once a call storing
\* key -> document has returned, every _load_index taken later maps key to
\* that document, until another call stores to the same key; the callers
\* keep one writer per key at a time, as PutLoad requires.
C12_PutsNeverLost ==
    snap.taken =>
        \A i \in 1..Len(acked) :
            ~Writing(acked[i].k) =>
                /\ HasKey(snap.idx, acked[i].k)
                /\ DictGet(snap.idx, acked[i].k) = acked[i].v

-----------------------------------------------------------------------------
(* Claims about the segmenter, under SpecSegment *)

\* a literal pattern matches s at offset i
LitAt(p, s, i) ==
    i + Len(p.a) <= Len(s) /\ \A j \in 1..Len(p.a) : s[i + j] \in p.a[j]
Occurs(p, s) == \E i \in 0..Len(s) : LitAt(p, s, i)
FirstOffset(p, s) == Min({i \in 0..Len(s) : LitAt(p, s, i)})

\* the window of max_length characters after the anchor
Window == Slice(stext, sstart, sstart + smax)

\* C3 as stated: a returned section is never longer than max_length, and
\* with no stop pattern matching in the window it ends at start + max_length
\* or at the end of the text, whichever comes first.
C3_SectionWithinMaxLength ==
    (spc = "done" /\ ssec # None) =>
        /\ Len(ssec) <= smax
        /\ (\A j \in 1..Len(sstops) : ~Occurs(sstops[j], Window)) =>
              send = Min({sstart + smax, Len(stext)})

\* C4: the segmenter returns None exactly when no anchor of the list occurs
\* in the text; otherwise the section starts where the first match of the
\* first anchor, in list order, that occurs ends, whatever the later anchors
\* match.
C4_FirstAnchorInListOrder ==
    spc = "done" =>
        LET occ == {j \in 1..Len(sanchors) : Occurs(sanchors[j], stext)}
            a == sanchors[Min(occ)]
            from == FirstOffset(a, stext) + Len(a.a)
        IN /\ ssec = None <=> occ = {}
           /\ occ # {} =>
                /\ sstart = from
                /\ ssec = Slice(stext, from, from + Len(ssec))

\* C4 witness: the second anchor matches at a smaller offset than the first
\* and the section still starts after the first anchor
C4_Witness ==
    /\ spc = "done" /\ ssec # None /\ Len(sanchors) = 2
    /\ Occurs(sanchors[1], stext) /\ Occurs(sanchors[2], stext)
    /\ FirstOffset(sanchors[2], stext) < FirstOffset(sanchors[1], stext)
    /\ sstart = FirstOffset(sanchors[1], stext) + Len(sanchors[1].a)

\* C10 as stated: when stop patterns match in the window, the section ends
\* at the smallest match offset of all of them, wherever they stand in the
\* stop list.
C10_EndsAtSmallestStopOffset ==
    (spc = "done" /\ ssec # None) =>
        LET occ == {j \in 1..Len(sstops) : Occurs(sstops[j], Window)}
        IN occ # {} =>
              send = sstart + Min({FirstOffset(sstops[j], Window) : j \in occ})

-----------------------------------------------------------------------------
(* extract_pds as a state machine over bounded documents *)

MaxPages == 2

\* what extract_text() gives for a page
PageSet ==
    { Chars("Typical properties\nViscosity, mm2/s @ 100°C"),
      Chars("ASTM D-445 17.5"),
      Chars("Flash Point, ºC: 230 (ASTM D-92)\nViscosity: 17.5"),
      Chars("Valvoline SynPower\nSpecifications\nAPI SN; api sn\n- ACEA C3\nViscosity Index: high\nRev. 306/06b"),
      Raises }

PdfPath == Chars("data/EUR_Val_SynENVC2_5W30_MO_EN.pdf")

\* the documents: readable ones, and one that PdfReader cannot open or parse
Docs ==
    { [readable |-> TRUE, pages |-> ps, title |-> t, path |-> PdfPath] :
        ps \in UNION {[1..n -> PageSet] : n \in 1..MaxPages},
        t \in {None, Chars(" Product Data Sheet ")} }
    \cup { [readable |-> FALSE, pages |-> <<>>, title |-> None, path |-> PdfPath] }

NoRecord == [none |-> TRUE]

ExtInit ==
    /\ IdleResolver /\ IdleSegmenter /\ IdleStore
    /\ doc \in Docs
    /\ pc = "read" /\ text = None /\ product = None /\ version = None
    /\ items = <<>> /\ approvals = <<>>
    /\ section = None /\ lines = <<>> /\ li = 0 /\ props = <<>> /\ ordinal = 0
    /\ record = NoRecord

\* line 234: text = _read_text(pdf_path).  PdfReader(pdf_path) stands outside
\* every try: what it raises leaves extract_pds
ReadText ==
    /\ pc = "read"
    /\ IF doc.readable
       THEN text' = read_text(doc.pages) /\ pc' = "product"
       ELSE text' = text /\ pc' = "raised"
    /\ UNCHANGED <<doc, product, version, items, approvals, section, lines, li,
                   props, ordinal, record, rvars, svars, wvars>>

\* line 237
ProductName ==
    /\ pc = "product"
    /\ product' = extract_product_name(text, doc)
    /\ pc' = "version"
    /\ UNCHANGED <<doc, text, version, items, approvals, section, lines, li,
                   props, ordinal, record, rvars, svars, wvars>>

\* line 238
Version ==
    /\ pc = "version"
    /\ version' = extract_version(text)
    /\ pc' = "approvals"
    /\ UNCHANGED <<doc, text, product, items, approvals, section, lines, li,
                   props, ordinal, record, rvars, svars, wvars>>

\* line 239, _extract_approvals down to line 146
ApprovalItems ==
    /\ pc = "approvals"
    /\ items' = approval_items(text)
    /\ pc' = "unique"
    /\ UNCHANGED <<doc, text, product, version, approvals, section, lines, li,
                   props, ordinal, record, rvars, svars, wvars>>

\* _extract_approvals, lines 148-156
ApprovalUnique ==
    /\ pc = "unique"
    /\ approvals' = Unique(items, {})
    /\ pc' = "section"
    /\ UNCHANGED <<doc, text, product, version, items, section, lines, li,
                   props, ordinal, record, rvars, svars, wvars>>

\* line 240, _extract_typical_properties down to line 176
PropSection ==
    /\ pc = "section"
    /\ section' = prop_section(text)
    /\ lines' = StrippedLines(section')
    /\ props' = <<>>
    /\ ordinal' = 1
    /\ li' = 1
    /\ pc' = "scan"
    /\ UNCHANGED <<doc, text, product, version, items, approvals, record, rvars, svars, wvars>>

\* one turn of the loop of lines 189-206
ScanLine ==
    /\ pc = "scan"
    /\ li <= Len(lines)
    /\ \E step \in {LineStep(lines, li, props, ordinal)} :
          props' = step.props /\ ordinal' = step.ordinal
    /\ li' = li + 1
    /\ UNCHANGED <<doc, pc, text, product, version, items, approvals, section, lines,
                   record, rvars, svars, wvars>>

\* lines 208-229: the looser grab when nothing parsed, and return props
LoosePass ==
    /\ pc = "scan"
    /\ li > Len(lines)
    /\ props' = IF props = <<>> THEN LooseRows(loose, section, ordinal) ELSE props
    /\ ordinal' = ordinal + (Len(props') - Len(props))
    /\ pc' = "renumber"
    /\ UNCHANGED <<doc, text, product, version, items, approvals, section, lines, li,
                   record, rvars, svars, wvars>>

\* lines 242-252: renumber the rows and return the dict
Return ==
    /\ pc = "renumber"
    /\ props' = Renumber(props)
    /\ record' = [pdf |-> doc.path, product_name_line |-> product, version |-> version,
                  approvals_and_specs |-> approvals, typical_properties |-> props']
    /\ pc' = "done"
    /\ UNCHANGED <<doc, text, product, version, items, approvals, section, lines, li,
                   ordinal, rvars, svars, wvars>>

ExtNext ==
    \/ ReadText \/ ProductName \/ Version \/ ApprovalItems \/ ApprovalUnique
    \/ PropSection \/ ScanLine \/ LoosePass \/ Return

SpecExtract == ExtInit /\ [][ExtNext]_vars

-----------------------------------------------------------------------------
(* Claims about extract_pds *)

Rows == record.typical_properties

\* whether the line loop appended no row, so that the rows are those of the
\* looser grab
NoLineParsed == \A k \in 1..Len(lines) : match(row_re, lines[k]) = NoMatch

\* C5: the property rows returned by _extract_typical_properties and the rows
\* of the record that extract_pds returns carry the ordinals 1..N, in the
\* order of the rows, whichever of the two passes produced them.
C5_OrdinalsOneToN ==
    /\ pc = "renumber" => \A i \in 1..Len(props) : props[i].ordinal = i
    /\ pc = "done" => \A i \in 1..Len(Rows) : Rows[i].ordinal = i

\* a record is returned with two rows or more, all of them from the looser grab
C5_Witness == pc = "done" /\ Len(Rows) >= 2 /\ NoLineParsed

C6_Lines == <<Chars("Viscosity, mm2/s @ 100°C"), Chars("ASTM D-445 17.5")>>

\* C6: when the lines of the typical-properties section are
\* "Viscosity, mm2/s @ 100°C" and "ASTM D-445 17.5", exactly one row is
\* returned, with that name, the test method "ASTM D-445" and the value "17.5".
C6_OneRowFromNameAndMethodLine ==
    (pc = "done" /\ lines = C6_Lines) =>
        /\ Len(Rows) = 1
        /\ Rows[1].property_name = C6_Lines[1]
        /\ Rows[1].test_method = Chars("ASTM D-445")
        /\ Rows[1].value = Chars("17.5")

\* the property names the table is scanned for
NameVocabulary ==
    {Chars("viscosity"), Chars("pour point"), Chars("flash point"), Chars("tbn"),
     Chars("density")}
NameLine(ln) == \E w \in NameVocabulary : Contains(lower(ln), w)
C8_NeverRaises == pc # "raised"

LowerKeys(its) == [k \in 1..Len(its) |-> lower(its[k])]
\* where the key of the i-th entry of out comes first among the items
FirstSeen(its, out, i) == Min({k \in 1..Len(its) : LowerKeys(its)[k] = lower(out[i])})

\* C9: the approvals list has no two entries equal without regard to case;
\* each entry is the first of the items with its key, every item has its key
\* in the list, and the entries stand in the order of these first items.
C9_ApprovalsUniqueInFirstSeenOrder ==
    pc \in {"section", "scan", "renumber", "done"} =>
        /\ \A i, j \in 1..Len(approvals) :
              i # j => lower(approvals[i]) # lower(approvals[j])
        /\ \A k \in 1..Len(items) :
              \E i \in 1..Len(approvals) : lower(approvals[i]) = lower(items[k])
        /\ \A i \in 1..Len(approvals) :
              /\ \E k \in 1..Len(items) : lower(items[k]) = lower(approvals[i])
              /\ approvals[i] = items[FirstSeen(items, approvals, i)]
        /\ \A i, j \in 1..Len(approvals) :
              i < j => FirstSeen(items, approvals, i) < FirstSeen(items, approvals, j)
        /\ pc = "done" => record.approvals_and_specs = approvals

\* two of the items differ in case only, and the list has two entries or more
C9_Witness ==
    /\ pc = "section" /\ Len(approvals) >= 2
    /\ \E i, j \in 1..Len(items) :
          i < j /\ items[i] # items[j] /\ lower(items[i]) = lower(items[j])

====
